---- MODULE Spec2Model ----
(***************************************************************************)
(* Model of the Nunchuk driver (class Nunchuk<T> of NunchukO.h) on top of  *)
(* the abstract bus transport I2C (I2C.h).  One action per public method   *)
(* of the driver; every action is the whole method.  The transport is      *)
(* modelled by its receive buffer and by the log of the operations the     *)
(* driver issued on it during the most recent call.                        *)
(***************************************************************************)
EXTENDS Integers, Sequences, FiniteSets, TLC

VARIABLES
    NUNCHUK_DISABLE_ENCRYPTION, \* build flag: TRUE when the macro is defined
    NUNCHUK_DEBUG,              \* build flag: TRUE when the macro is defined
    m_NunchukData,              \* uint8_t[6], indexed 0..5
    m_Wire,                     \* transport: [rx |-> buffered bytes, log |-> operations of the last call]
    callOp,                     \* name of the most recent method call
    callArg,                    \* its argument (decodeByte), else 0
    callRet,                    \* its return value, 0 for void
    preData,                    \* m_NunchukData as it was when the most recent call began
    lastGood                    \* frame stored by the most recent read() that returned true, <<>> if none

vars == <<NUNCHUK_DISABLE_ENCRYPTION, NUNCHUK_DEBUG, m_NunchukData, m_Wire,
          callOp, callArg, callRet, preData, lastGood>>

----------------------------------------------------------------------------
(* Program constants *)
NUNCHUK_MESSAGE_SIZE == 6
NUNCHUK_ADDRESS == 82
NUNCHUK_JOYSTICK_X_ZERO == 128
NUNCHUK_JOYSTICK_Y_ZERO == 128
NUNCHUK_ACCEL_X_ZERO == 512
NUNCHUK_ACCEL_Y_ZERO == 512
NUNCHUK_ACCEL_Z_ZERO == 512

(* Bounds of the model *)
MaxRx == 7              \* most bytes a transport hands over for one requestFrom

ByteSet == {0, 231}     \* byte values of an uninitialised frame and decodeByte arguments
Byte == 0..255
Index == 0..(NUNCHUK_MESSAGE_SIZE - 1)

\* What a transport may hand over for one requestFrom: n consecutive byte
\* values starting at first, so that every position carries its own value.
RxStarts == {0, 231}
RxSeq(first, n) == [j \in 1..n |-> (first + j - 1) % 256]
RxSeqs == {RxSeq(first, n) : first \in RxStarts, n \in 0..MaxRx}

----------------------------------------------------------------------------
(* Fixed-width integer arithmetic *)
RECURSIVE BitXor(_, _)
BitXor(a, b) ==
    IF a = 0 /\ b = 0 THEN 0
    ELSE (((a % 2) + (b % 2)) % 2) + 2 * BitXor(a \div 2, b \div 2)

RECURSIVE BitAnd(_, _)
BitAnd(a, b) ==
    IF a = 0 \/ b = 0 THEN 0
    ELSE ((a % 2) * (b % 2)) + 2 * BitAnd(a \div 2, b \div 2)

RECURSIVE BitOr(_, _)
BitOr(a, b) ==
    IF a = 0 /\ b = 0 THEN 0
    ELSE (IF a % 2 = 1 \/ b % 2 = 1 THEN 1 ELSE 0) + 2 * BitOr(a \div 2, b \div 2)

RECURSIVE Pow2(_)
Pow2(n) == IF n = 0 THEN 1 ELSE 2 * Pow2(n - 1)

ToUint8(x) == x % 256
ToInt8(x) == ((x + 128) % 256) - 128
ToUint16(x) == x % 65536
ToInt16(x) == ((x + 32768) % 65536) - 32768
\* ~x and x >> n on a byte promoted to int (two's complement, arithmetic shift)
IntNot(x) == (-x) - 1
IntShr(x, n) == x \div Pow2(n)

----------------------------------------------------------------------------
(* Bus transport (I2C): every operation is appended to the log *)
LogOp(w, name, a, b) == [w EXCEPT !.log = Append(@, <<name, a, b>>)]

Wire_setClock(w, clock) == LogOp(w, "setClock", clock, 0)
Wire_start(w, addr) == LogOp(w, "start", addr, 0)
Wire_stop(w) == LogOp(w, "stop", 0, 0)
Wire_write(w, data) == LogOp(w, "write", data, 0)
\* the bytes the slave returns are the transport's choice
Wire_requestFrom(w, address, length, delivered) ==
    [LogOp(w, "requestFrom", address, length) EXCEPT !.rx = delivered]
Wire_available(w) ==
    [w |-> LogOp(w, "available", Len(w.rx), 0), ret |-> Len(w.rx)]
Wire_read(w) ==
    [w |-> [LogOp(w, "read", Head(w.rx), 0) EXCEPT !.rx = Tail(w.rx)], ret |-> Head(w.rx)]

----------------------------------------------------------------------------
(* Nunchuk::init *)
PlainHandshake(w) ==
    LET t1 == Wire_stop(Wire_write(Wire_write(Wire_start(w, NUNCHUK_ADDRESS), 240), 85))
    IN  Wire_stop(Wire_write(Wire_write(Wire_start(t1, NUNCHUK_ADDRESS), 251), 0))

ObfuscatedHandshake(w) ==
    Wire_stop(Wire_write(Wire_write(Wire_start(w, NUNCHUK_ADDRESS), 64), 0))

\* both handshakes, one after the other
Handshake_Both(w, disableEncryption) ==
    IF disableEncryption THEN ObfuscatedHandshake(PlainHandshake(w))
    ELSE ObfuscatedHandshake(w)

Handshake(w, disableEncryption) ==
    IF disableEncryption THEN PlainHandshake(w) ELSE ObfuscatedHandshake(w)

\* for(i = 0; i < 6; i++) if(available()) print(read())
RECURSIVE DebugLoop(_, _)
DebugLoop(w, i) ==
    IF i < 6
    THEN LET a == Wire_available(w)
         IN  IF a.ret # 0 THEN DebugLoop(Wire_read(a.w).w, i + 1)
                          ELSE DebugLoop(a.w, i + 1)
    ELSE w

DebugQuery(w, delivered) ==
    LET t1 == Wire_stop(Wire_write(Wire_start(w, NUNCHUK_ADDRESS), 250))
        t2 == Wire_requestFrom(t1, NUNCHUK_ADDRESS, NUNCHUK_MESSAGE_SIZE, delivered)
    IN  Wire_stop(DebugLoop(t2, 0))

InitWire(w, disableEncryption, debug, delivered) ==
    LET t1 == Handshake(Wire_setClock(w, 400000), disableEncryption)
    IN  IF debug THEN DebugQuery(t1, delivered) ELSE t1

----------------------------------------------------------------------------
(* Nunchuk::decodeByte *)
\* the sum kept at int width
decodeByte_NoWrap(byte, disableEncryption) ==
    IF disableEncryption THEN byte
    ELSE BitXor(byte, 23) + 23

decodeByte(byte, disableEncryption) ==
    IF disableEncryption THEN byte
    ELSE ToUint8(BitXor(byte, 23) + 23)

(* Nunchuk::read *)
\* for(i = 0; i < NUNCHUK_MESSAGE_SIZE && m_Wire.available(); i++)
\*     m_NunchukData[i] = decodeByte(m_Wire.read());
\* the loop runs until the transport is empty
RECURSIVE ReadLoop_Drain(_, _, _, _)
ReadLoop_Drain(i, data, w, disableEncryption) ==
    LET a == Wire_available(w)
    IN  IF a.ret # 0
        THEN LET r == Wire_read(a.w)
             IN  ReadLoop_Drain(i + 1,
                      IF i < NUNCHUK_MESSAGE_SIZE
                      THEN [data EXCEPT ![i] = decodeByte(r.ret, disableEncryption)]
                      ELSE data,
                      r.w, disableEncryption)
        ELSE [i |-> i, data |-> data, w |-> a.w]

\* the stored byte decoded a second time
RECURSIVE ReadLoop_DecodeTwice(_, _, _, _)
ReadLoop_DecodeTwice(i, data, w, disableEncryption) ==
    IF i < NUNCHUK_MESSAGE_SIZE
    THEN LET a == Wire_available(w)
         IN  IF a.ret # 0
             THEN LET r == Wire_read(a.w)
                  IN  ReadLoop_DecodeTwice(i + 1,
                               [data EXCEPT ![i] = decodeByte(decodeByte(r.ret, disableEncryption),
                                                              disableEncryption)],
                               r.w, disableEncryption)
             ELSE [i |-> i, data |-> data, w |-> a.w]
    ELSE [i |-> i, data |-> data, w |-> w]

\* a failed read puts the previous frame back
RECURSIVE ReadLoop_Restore(_, _, _, _)
ReadLoop_Restore(i, data, w, disableEncryption) ==
    IF i < NUNCHUK_MESSAGE_SIZE
    THEN LET a == Wire_available(w)
         IN  IF a.ret # 0
             THEN LET r == Wire_read(a.w)
                      l == ReadLoop_Restore(i + 1,
                               [data EXCEPT ![i] = decodeByte(r.ret, disableEncryption)],
                               r.w, disableEncryption)
                  IN  IF l.i = 6 THEN l ELSE [l EXCEPT !.data = data]
             ELSE [i |-> i, data |-> data, w |-> a.w]
    ELSE [i |-> i, data |-> data, w |-> w]

RECURSIVE ReadLoop(_, _, _, _)
ReadLoop(i, data, w, disableEncryption) ==
    IF i < NUNCHUK_MESSAGE_SIZE
    THEN LET a == Wire_available(w)
         IN  IF a.ret # 0
             THEN LET r == Wire_read(a.w)
                  IN  ReadLoop(i + 1,
                               [data EXCEPT ![i] = decodeByte(r.ret, disableEncryption)],
                               r.w, disableEncryption)
             ELSE [i |-> i, data |-> data, w |-> a.w]
    ELSE [i |-> i, data |-> data, w |-> w]

Rearm(w) == Wire_stop(Wire_write(Wire_start(w, NUNCHUK_ADDRESS), 0))

ReadResult_AnyByte(i) == (i > 0)

ReadResult(i) == (i = 6)

\* the re-arm only after a complete frame
ReadBody_RearmOnSuccess(data, w, disableEncryption, delivered) ==
    LET t1 == Wire_requestFrom(w, NUNCHUK_ADDRESS, NUNCHUK_MESSAGE_SIZE, delivered)
        l  == ReadLoop(0, data, t1, disableEncryption)
    IN  [data |-> l.data, w |-> IF l.i = 6 THEN Rearm(l.w) ELSE l.w, ret |-> ReadResult(l.i)]

\* an incomplete frame clears the rest of the buffer
ReadBody_ClearStale(data, w, disableEncryption, delivered) ==
    LET t1 == Wire_requestFrom(w, NUNCHUK_ADDRESS, NUNCHUK_MESSAGE_SIZE, delivered)
        l  == ReadLoop(0, data, t1, disableEncryption)
    IN  [data |-> [i \in Index |-> IF i < l.i THEN l.data[i] ELSE 0],
         w |-> Rearm(l.w), ret |-> ReadResult(l.i)]

ReadBody(data, w, disableEncryption, delivered) ==
    LET t1 == Wire_requestFrom(w, NUNCHUK_ADDRESS, NUNCHUK_MESSAGE_SIZE, delivered)
        l  == ReadLoop(0, data, t1, disableEncryption)
    IN  [data |-> l.data, w |-> Rearm(l.w), ret |-> ReadResult(l.i)]

----------------------------------------------------------------------------
(* Accessors *)
getButtonZ(data) == BitAnd(IntShr(IntNot(data[5]), 0), IF 1 = 1 THEN 1 ELSE 0) # 0
\* bit 0 tested instead of bit 1
getButtonC_Bit0(data) == BitAnd(IntShr(IntNot(data[5]), 0), IF 1 = 1 THEN 1 ELSE 0) # 0

getButtonC(data) == BitAnd(IntShr(IntNot(data[5]), 1), IF 1 = 1 THEN 1 ELSE 0) # 0

getJoystickRawX(data) == data[0]
getJoystickRawY(data) == data[1]

getAccelRawX(data) == ToUint16(BitOr(ToUint16(data[2]) * 4, BitAnd(IntShr(data[5], 2), 3)))
\* the bit field of the X axis used for Y
getAccelRawY_FieldOfX(data) == ToUint16(BitOr(ToUint16(data[3]) * 4, BitAnd(IntShr(data[5], 2), 3)))

getAccelRawY(data) == ToUint16(BitOr(ToUint16(data[3]) * 4, BitAnd(IntShr(data[5], 4), 3)))
getAccelRawZ(data) == ToUint16(BitOr(ToUint16(data[4]) * 4, BitAnd(IntShr(data[5], 6), 3)))

getJoystickY(data) == ToInt8(ToInt16(getJoystickRawY(data)) - NUNCHUK_JOYSTICK_Y_ZERO)
\* the Y byte used for X
getJoystickX_ReadsY(data) == ToInt8(ToInt16(getJoystickRawY(data)) - NUNCHUK_JOYSTICK_X_ZERO)

getJoystickX(data) == ToInt8(ToInt16(getJoystickRawX(data)) - NUNCHUK_JOYSTICK_X_ZERO)

getAccelX(data) == ToInt16(ToInt16(getAccelRawX(data)) - ToInt16(NUNCHUK_ACCEL_X_ZERO))
getAccelY(data) == ToInt16(ToInt16(getAccelRawY(data)) - ToInt16(NUNCHUK_ACCEL_Y_ZERO))
getAccelZ(data) == ToInt16(ToInt16(getAccelRawZ(data)) - ToInt16(NUNCHUK_ACCEL_Z_ZERO))

----------------------------------------------------------------------------
(* State machine *)
NewLog(w) == [w EXCEPT !.log = <<>>]

Construct(data) ==
    /\ NUNCHUK_DISABLE_ENCRYPTION \in BOOLEAN
    /\ NUNCHUK_DEBUG \in BOOLEAN
    /\ m_NunchukData = data
    /\ m_Wire = [rx |-> <<>>, log |-> <<>>]
    /\ callOp = "Nunchuk"
    /\ callArg = 0
    /\ callRet = 0
    /\ preData = data
    /\ lastGood = <<>>

\* The constructor leaves m_NunchukData uninitialised: zero for an object
\* with static storage, any bytes otherwise.
UninitFrames == {[i \in Index |-> b] : b \in ByteSet}

Init == \E data \in UninitFrames : Construct(data)

Nunchuk_init ==
    /\ \E delivered \in (IF NUNCHUK_DEBUG THEN RxSeqs ELSE {<<>>}) :
          m_Wire' = InitWire(NewLog(m_Wire), NUNCHUK_DISABLE_ENCRYPTION, NUNCHUK_DEBUG, delivered)
    /\ callOp' = "init"
    /\ callArg' = 0
    /\ callRet' = 0
    /\ preData' = m_NunchukData
    /\ UNCHANGED <<NUNCHUK_DISABLE_ENCRYPTION, NUNCHUK_DEBUG, m_NunchukData, lastGood>>

Nunchuk_read ==
    /\ \E delivered \in RxSeqs :
          LET r == ReadBody(m_NunchukData, NewLog(m_Wire), NUNCHUK_DISABLE_ENCRYPTION, delivered)
          IN  /\ m_NunchukData' = r.data
              /\ m_Wire' = r.w
              /\ callRet' = r.ret
              /\ lastGood' = IF r.ret THEN r.data ELSE lastGood
    /\ callOp' = "read"
    /\ callArg' = 0
    /\ preData' = m_NunchukData
    /\ UNCHANGED <<NUNCHUK_DISABLE_ENCRYPTION, NUNCHUK_DEBUG>>

\* an accessor that re-arms the device
Returns_Rearm(name, arg, ret) ==
    /\ callOp' = name
    /\ callArg' = arg
    /\ callRet' = ret
    /\ preData' = m_NunchukData
    /\ m_Wire' = Rearm(NewLog(m_Wire))
    /\ UNCHANGED <<NUNCHUK_DISABLE_ENCRYPTION, NUNCHUK_DEBUG, m_NunchukData, lastGood>>

\* a method that only computes a value from its argument and the frame
Returns(name, arg, ret) ==
    /\ callOp' = name
    /\ callArg' = arg
    /\ callRet' = ret
    /\ preData' = m_NunchukData
    /\ m_Wire' = NewLog(m_Wire)
    /\ UNCHANGED <<NUNCHUK_DISABLE_ENCRYPTION, NUNCHUK_DEBUG, m_NunchukData, lastGood>>

Nunchuk_decodeByte(inputs) ==
    \E byte \in inputs : Returns("decodeByte", byte, decodeByte(byte, NUNCHUK_DISABLE_ENCRYPTION))

Nunchuk_getButtonZ == Returns("getButtonZ", 0, getButtonZ(m_NunchukData))
Nunchuk_getButtonC == Returns("getButtonC", 0, getButtonC(m_NunchukData))
Nunchuk_getJoystickX == Returns("getJoystickX", 0, getJoystickX(m_NunchukData))
Nunchuk_getJoystickY == Returns("getJoystickY", 0, getJoystickY(m_NunchukData))

Nunchuk_getAccelX == Returns("getAccelX", 0, getAccelX(m_NunchukData))
Nunchuk_getAccelY == Returns("getAccelY", 0, getAccelY(m_NunchukData))
Nunchuk_getAccelZ == Returns("getAccelZ", 0, getAccelZ(m_NunchukData))

Accessors ==
    \/ Nunchuk_getButtonZ
    \/ Nunchuk_getButtonC
    \/ Nunchuk_getJoystickX
    \/ Nunchuk_getJoystickY
    \/ Nunchuk_getAccelX
    \/ Nunchuk_getAccelY
    \/ Nunchuk_getAccelZ

Next ==
    \/ Nunchuk_init
    \/ Nunchuk_read
    \/ Nunchuk_decodeByte(ByteSet)
    \/ Accessors

Spec == Init /\ [][Next]_vars

(* decodeByte over the whole byte range *)
NextDecode == Nunchuk_decodeByte(Byte)

SpecDecode == Init /\ [][NextDecode]_vars

(* The accessors over frames in which every position takes every byte value *)
FrameStrides == {0, 37, 101}
FrameInputs == {[i \in Index |-> (b + i * d) % 256] : b \in Byte, d \in FrameStrides}

InitFrame == \E data \in FrameInputs : Construct(data)

NextFrame == Accessors

SpecFrame == InitFrame /\ [][NextFrame]_vars

----------------------------------------------------------------------------
(* Observations on the most recent call *)
Log == m_Wire.log
OpsNamed(name) == {j \in 1..Len(Log) : Log[j][1] = name}
IsRead(e) == e[1] = "read"
\* the bytes taken from the transport by the most recent call, in arrival order
Consumed == [j \in 1..Len(SelectSeq(Log, IsRead)) |-> SelectSeq(Log, IsRead)[j][2]]

\* b XOR 0x17 written out: bits 0, 1, 2 and 4 are flipped
FlipBit(b, n) == IF (b \div Pow2(n)) % 2 = 1 THEN b - Pow2(n) ELSE b + Pow2(n)
ExpectedDecode(b) ==
    IF NUNCHUK_DISABLE_ENCRYPTION THEN b
    ELSE (FlipBit(FlipBit(FlipBit(FlipBit(b, 0), 1), 2), 4) + 23) % 256

RearmOps == <<  <<"start", 82, 0>>, <<"write", 0, 0>>, <<"stop", 0, 0>>  >>

----------------------------------------------------------------------------
\* C1: read() returns true if and only if exactly 6 bytes were consumed from
\* the transport during the call, each byte read coming right after an
\* available() that reported a non-zero count; with nothing available it
\* returns false.
C1_ReadTrueIffSixBytes ==
    callOp = "read" =>
        /\ callRet \in BOOLEAN
        /\ callRet <=> (Len(Consumed) = 6)
        /\ \A j \in OpsNamed("read") :
              j > 1 /\ Log[j - 1][1] = "available" /\ Log[j - 1][2] > 0
        /\ (Log[2] = <<"available", 0, 0>>) => (callRet = FALSE)

C1_Witness ==
    /\ callOp = "read"
    /\ callRet = TRUE
    /\ Len(Consumed) = 6
    /\ Log[2][2] = 7

\* C2: every read() call issues the re-arm write start(0x52), write(0x00),
\* stop() exactly once, as its last three transport operations, so no byte
\* is read from the transport after it.
C2_RearmOnceAfterReads ==
    callOp = "read" =>
        /\ Len(Log) >= 3
        /\ SubSeq(Log, Len(Log) - 2, Len(Log)) = RearmOps
        /\ Cardinality(OpsNamed("start")) = 1
        /\ Cardinality(OpsNamed("write")) = 1
        /\ Cardinality(OpsNamed("stop")) = 1
        /\ \A j \in OpsNamed("read") \cup OpsNamed("available") : j < Len(Log) - 2

C2_Witness ==
    /\ callOp = "read"
    /\ Len(Consumed) = 3
    /\ callRet = FALSE
    /\ SubSeq(Log, Len(Log) - 2, Len(Log)) = RearmOps

\* C3: a read() that obtains only k < 6 bytes leaves the decoded new bytes
\* at frame indices 0..k-1, in arrival order, and leaves indices k..5 with
\* the values they had before the call.
C3_PartialReadKeepsTail ==
    (callOp = "read" /\ Len(Consumed) < 6) =>
        \A i \in Index :
            m_NunchukData[i] = IF i < Len(Consumed) THEN ExpectedDecode(Consumed[i + 1])
                                                     ELSE preData[i]

C3_Witness ==
    /\ callOp = "read"
    /\ Len(Consumed) = 3
    /\ \A i \in 0..2 : m_NunchukData[i] # preData[i]
    /\ \A i \in 3..5 : m_NunchukData[i] = preData[i]
    /\ m_NunchukData[1] # m_NunchukData[0]

DecodedConsumed == [i \in Index |-> ExpectedDecode(Consumed[i + 1])]

\* C4 as stated: once some read() has returned true, the frame always equals
\* the 6 decoded bytes delivered by the most recent read() that returned
\* true, a read() that returns false changing no frame byte.
C4_FrameNeverPartiallyUpdated ==
    lastGood # <<>> =>
        /\ m_NunchukData = lastGood
        /\ (callOp = "read" /\ callRet = FALSE) => (m_NunchukData = preData)

\* C4 amended: right after a read() that returned true the frame equals the
\* 6 decoded bytes it delivered; init(), decodeByte() and the accessors leave
\* the frame as it is; a later read() that returns false after consuming k
\* bytes overwrites frame bytes 0..k-1 with them, decoded, and changes no
\* other frame byte, so frame byte 5 always equals byte 5 of the most recent
\* read() that returned true.
C4_FrameAfterLastGoodRead ==
    lastGood # <<>> =>
        /\ (callOp = "read" /\ callRet = TRUE) =>
              (m_NunchukData = DecodedConsumed /\ lastGood = DecodedConsumed)
        /\ (callOp = "read" /\ callRet = FALSE) =>
              m_NunchukData = [i \in Index |-> IF i >= Len(Consumed) THEN preData[i]
                                               ELSE ExpectedDecode(Consumed[i + 1])]
        /\ callOp # "read" => m_NunchukData = preData
        /\ m_NunchukData[5] = lastGood[5]

C4_Witness ==
    /\ lastGood # <<>>
    /\ callOp = "read"
    /\ callRet = FALSE
    /\ Len(Consumed) = 5
    /\ \A i \in 0..4 : m_NunchukData[i] # lastGood[i]
    /\ m_NunchukData[5] = lastGood[5]

PlainHandshakeOps ==
    << <<"start", 82, 0>>, <<"write", 240, 0>>, <<"write", 85, 0>>, <<"stop", 0, 0>>,
       <<"start", 82, 0>>, <<"write", 251, 0>>, <<"write", 0, 0>>, <<"stop", 0, 0>> >>
ObfuscatedHandshakeOps ==
    << <<"start", 82, 0>>, <<"write", 64, 0>>, <<"write", 0, 0>>, <<"stop", 0, 0>> >>
Writes(byte) == {j \in OpsNamed("write") : Log[j][2] = byte}

\* C5: init() calls setClock(400000) before any other transport operation
\* and then emits exactly one handshake, chosen by the mode flag: in plain
\* mode start(0x52),write(0xF0),write(0x55),stop(),start(0x52),write(0xFB),
\* write(0x00),stop(); in obfuscated mode start(0x52),write(0x40),
\* write(0x00),stop(); the bytes of the other handshake are never written.
C5_InitClockThenOneHandshake ==
    callOp = "init" =>
        LET hs == IF NUNCHUK_DISABLE_ENCRYPTION THEN PlainHandshakeOps
                                                ELSE ObfuscatedHandshakeOps
        IN  /\ Len(Log) >= 1 + Len(hs)
            /\ Log[1] = <<"setClock", 400000, 0>>
            /\ OpsNamed("setClock") = {1}
            /\ SubSeq(Log, 2, 1 + Len(hs)) = hs
            /\ NUNCHUK_DISABLE_ENCRYPTION =>
                  (Writes(64) = {} /\ Writes(240) = {2 + 1} /\ Writes(251) = {2 + 5})
            /\ ~NUNCHUK_DISABLE_ENCRYPTION =>
                  (Writes(240) = {} /\ Writes(85) = {} /\ Writes(251) = {} /\ Writes(64) = {2 + 1})

C5_Witness ==
    /\ callOp = "init"
    /\ ~NUNCHUK_DISABLE_ENCRYPTION
    /\ ~NUNCHUK_DEBUG
    /\ Log = << <<"setClock", 400000, 0>> >> \o ObfuscatedHandshakeOps

\* The configurations the repository ships: NunchukO.h defines both
\* NUNCHUK_DISABLE_ENCRYPTION and NUNCHUK_DEBUG, the single-file copy defines
\* NUNCHUK_DISABLE_ENCRYPTION only.
ShippedConfigurations ==
    { [disableEncryption |-> TRUE, debug |-> TRUE],
      [disableEncryption |-> TRUE, debug |-> FALSE] }
DefaultConfiguration ==
    [disableEncryption |-> NUNCHUK_DISABLE_ENCRYPTION, debug |-> NUNCHUK_DEBUG]
        \in ShippedConfigurations

\* C6: in the default configuration init() performs no identification
\* query: no write of 0xFA, no requestFrom, no byte read, and the last
\* transport operation is the stop() that ends the handshake.
C6_DefaultInitHasNoQuery ==
    (callOp = "init" /\ DefaultConfiguration) =>
        /\ Writes(250) = {}
        /\ OpsNamed("requestFrom") = {}
        /\ OpsNamed("read") = {}
        /\ Log = << <<"setClock", 400000, 0>> >> \o PlainHandshakeOps

\* C7: for every byte b in 0..255, decodeByte(b) is b in plain mode and
\* ((b XOR 0x17) + 0x17) mod 256 in obfuscated mode; the call leaves the
\* frame alone and issues no transport operation.
C7_DecodeByteValue ==
    callOp = "decodeByte" =>
        /\ callRet = IF NUNCHUK_DISABLE_ENCRYPTION THEN callArg
                     ELSE (FlipBit(FlipBit(FlipBit(FlipBit(callArg, 0), 1), 2), 4) + 23) % 256
        /\ callRet \in Byte
        /\ m_NunchukData = preData
        /\ Log = <<>>

C7_Witness ==
    /\ callOp = "decodeByte"
    /\ ~NUNCHUK_DISABLE_ENCRYPTION
    /\ callArg = 231
    /\ callRet = 7

\* C8: in either mode, after a read() that consumed the bytes w[0..k-1],
\* frame[i] is decode(w[i]) for every i < k, decode applied once; the
\* calibrated accessors compute from the stored bytes without decoding
\* them again.
C8_DecodeAppliedOnce ==
    /\ callOp = "read" =>
          \A i \in Index : i < Len(Consumed) => m_NunchukData[i] = ExpectedDecode(Consumed[i + 1])
    /\ callOp = "getJoystickX" => (callRet = m_NunchukData[0] - 128 /\ m_NunchukData = preData)
    /\ callOp = "getJoystickY" => (callRet = m_NunchukData[1] - 128 /\ m_NunchukData = preData)
    /\ callOp = "getAccelX" =>
          (callRet = m_NunchukData[2] * 4 + ((m_NunchukData[5] \div 4) % 4) - 512
           /\ m_NunchukData = preData)
    /\ callOp = "getButtonZ" => (callRet = (m_NunchukData[5] % 2 = 0) /\ m_NunchukData = preData)

C8_Witness ==
    /\ callOp = "read"
    /\ ~NUNCHUK_DISABLE_ENCRYPTION
    /\ Len(Consumed) = 6
    /\ Consumed[1] = 231
    /\ m_NunchukData[0] = 7
    /\ Consumed[6] = 236
    /\ m_NunchukData[5] = 18

\* C9: for every value of frame byte 5, getButtonZ() is true exactly when
\* bit 0 of frame[5] is 0 and getButtonC() is true exactly when bit 1 of
\* frame[5] is 0, whatever the other bits are.
C9_ButtonsAreInvertedBits ==
    /\ callOp = "getButtonZ" => (callRet <=> (m_NunchukData[5] % 2 = 0))
    /\ callOp = "getButtonC" => (callRet <=> ((m_NunchukData[5] \div 2) % 2 = 0))

C9_Witness ==
    /\ callOp = "getButtonC"
    /\ m_NunchukData[5] = 253
    /\ callRet = TRUE

----------------------------------------------------------------------------
(* The acceleration accessors over frames in which byte 5 takes every value *)
(* independently of the coarse bytes 2..4                                   *)
CoarseBytes == {0, 128, 255}
AccelFrames ==
    {[i \in Index |-> IF i = 5 THEN f ELSE IF i \in 2..4 THEN c[i] ELSE 0] :
        f \in Byte, c \in [2..4 -> CoarseBytes]}

InitAccel == \E data \in FrameInputs \cup AccelFrames : Construct(data)

NextAccel ==
    \/ Nunchuk_getAccelX
    \/ Nunchuk_getAccelY
    \/ Nunchuk_getAccelZ

SpecAccel == InitAccel /\ [][NextAccel]_vars

\* the 2-bit field of frame byte 5 that starts at bit n
Field(n) == (m_NunchukData[5] \div Pow2(n)) % 4

\* C11: for every frame, getAccelX/Y/Z() return (frame[2|3|4] * 4 + the
\* 2-bit field of frame[5] at bits 2-3 | 4-5 | 6-7) - 512; each axis depends
\* on its own coarse byte and its own field only, the raw value lies in
\* 0..1023 and the result in -512..511.
C11_AccelIsPackedMinus512 ==
    /\ callOp = "getAccelX" => callRet = (m_NunchukData[2] * 4 + Field(2)) - 512
    /\ callOp = "getAccelY" => callRet = (m_NunchukData[3] * 4 + Field(4)) - 512
    /\ callOp = "getAccelZ" => callRet = (m_NunchukData[4] * 4 + Field(6)) - 512
    /\ callOp \in {"getAccelX", "getAccelY", "getAccelZ"} =>
          (callRet + 512 \in 0..1023 /\ callRet \in (0 - 512)..511)

C11_Witness ==
    /\ callOp = "getAccelX"
    /\ m_NunchukData[2] = 128
    /\ m_NunchukData[3] = 0
    /\ m_NunchukData[5] = 12
    /\ callRet = 3

AccessorNames ==
    {"getButtonZ", "getButtonC", "getJoystickX", "getJoystickY",
     "getAccelX", "getAccelY", "getAccelZ"}

\* C12: a call of a decoded accessor leaves all 6 frame bytes and the
\* transport's buffered bytes as they were and issues no transport
\* operation, and calling the same accessor again returns the same value.
C12_AccessorsArePure ==
    [][ callOp' \in AccessorNames =>
          /\ m_NunchukData' = m_NunchukData
          /\ m_Wire'.rx = m_Wire.rx
          /\ m_Wire'.log = <<>>
          /\ callOp = callOp' => callRet' = callRet ]_vars

C12_Witness ==
    /\ callOp = "getAccelZ"
    /\ lastGood # <<>>
    /\ m_NunchukData = lastGood
    /\ m_NunchukData = preData
    /\ Len(m_Wire.rx) = 1
    /\ Log = <<>>

----------------------------------------------------------------------------
(* The driver between construction and the first read() *)
NextNoRead ==
    \/ Nunchuk_init
    \/ Accessors

SpecNoRead == Init /\ [][NextNoRead]_vars

\* C13: after construction and before any read() call, with or without a
\* preceding init(), all 6 frame bytes are 0, so the accessors return
\* joystick (-128,-128), acceleration (-512,-512,-512) and both buttons
\* pressed.
C13_FrameZeroBeforeFirstRead ==
    /\ \A i \in Index : m_NunchukData[i] = 0
    /\ callOp \in {"getJoystickX", "getJoystickY"} => callRet = 0 - 128
    /\ callOp \in {"getAccelX", "getAccelY", "getAccelZ"} => callRet = 0 - 512
    /\ callOp \in {"getButtonZ", "getButtonC"} => callRet = TRUE

\* C14: each read() call ends after a bounded number of transport
\* operations and does not retry: requestFrom(0x52, 6) is its first
\* transport operation and its only requestFrom, and it consumes at most 6
\* bytes even when the transport reports more than 6 available.
C14_OneRequestAtMostSixBytes ==
    callOp = "read" =>
        /\ Log[1] = <<"requestFrom", 82, 6>>
        /\ OpsNamed("requestFrom") = {1}
        /\ Len(Consumed) <= 6
        /\ Cardinality(OpsNamed("available")) <= 6
        /\ Len(Log) <= 16

C14_Witness ==
    /\ callOp = "read"
    /\ Log[1] = <<"requestFrom", 82, 6>>
    /\ Log[2] = <<"available", 7, 0>>
    /\ Len(Consumed) = 6
    /\ Len(m_Wire.rx) = 1
    /\ Len(Log) = 16

\* Scan of a log: open is TRUE while a transaction begun by start(0x52) has
\* not been ended by stop().
RECURSIVE Bracketed(_, _)
Bracketed(log, open) ==
    IF log = <<>> THEN ~open
    ELSE LET e == Head(log)
         IN  CASE e[1] = "start" -> e[2] = 82 /\ Bracketed(Tail(log), TRUE)
               [] e[1] = "stop"  -> open /\ Bracketed(Tail(log), FALSE)
               [] e[1] = "write" -> open /\ Bracketed(Tail(log), open)
               [] OTHER          -> Bracketed(Tail(log), open)

\* C15: in every configuration the write transactions of init() and read()
\* are well bracketed: stop() is called only while a transaction opened by
\* start(0x52) is open, write() only inside an open transaction, and no
\* transaction is open when the call returns.
C15_TransactionsWellBracketed ==
    callOp \in {"init", "read"} => Bracketed(Log, FALSE)

====
